---- MODULE Spec2Model ----
(***************************************************************************)
(* State-machine model of the resource-management core of e2:             *)
(*   - BindCache            (src/src/bind_cache.rs)                        *)
(*   - GrowingBufferArena   (src/src/growing.rs)                           *)
(*   - BatchRenderer        (src/src/batch_render.rs)                      *)
(* GPU objects (buffers, bind groups) are modelled by the serial number   *)
(* of the device call that created them, so that "the identical handle"   *)
(* and "a new object" are distinguishable.                                *)
(***************************************************************************)
EXTENDS Integers, Sequences, FiniteSets, TLC

\* ------------------------------------------------------------------------
\* Bounds of the model
\* ------------------------------------------------------------------------
MaxKey == 2            \* BindCache keys are 0..MaxKey
MaxDesc == 1           \* bind-group descriptors are 0..MaxDesc
MaxCapacity == 3       \* arena per-buffer capacities are 0..MaxCapacity
MaxSlots == 3          \* the arena is not grown beyond MaxSlots slots
RecursionLimit == 3    \* depth to which a non-terminating allocate is followed
MaxDraws == 2          \* BatchRenderer::draw is given 0..MaxDraws records
MaxPool == 3           \* the instance pool is not grown beyond MaxPool buffers
MaxTexture == 0        \* textures have ids 0..MaxTexture
MaxFrameDraws == 2     \* draws per frame when frames are observed
MaxArrayIds == 3       \* DrawArray ids handed out are below MaxArrayIds
MaxRenderPool == 2     \* pool growth when draw and draw_array are combined
MaxSampler == 0        \* sampler ids are 0..MaxSampler
MaxFrameOps == 3       \* calls that record into one frame
MaxBackend == 1        \* graphics backends are 0..MaxBackend
MaxCalls == 2          \* calls of Context::new
MaxLiveSlots == 2      \* slots of an arena whose allocations are followed
MaxAlignLog == 6       \* offset alignments are 0 and 2^0 .. 2^MaxAlignLog
MaxPadSize == 4        \* pad_uniform_size is given sizes within MaxPadSize of 0
MaxMeshCount == 2      \* vertex and index slices hold 0..MaxMeshCount elements
                       \* and of the largest word
MaxThread == 1         \* threads constructing resources are 0..MaxThread
MaxIds == 2            \* ids handed out per kind of resource by those threads

Keys == 0..MaxKey
Descs == 0..MaxDesc
Capacities == 0..MaxCapacity

None == [op |-> "none"]

VARIABLES
    \* BindCache
    cache,              \* BindCache.cache : key -> bind group
    bindGroupsCreated,  \* number of device.create_bind_group calls so far
    cacheOp,            \* the last BindCache call
    cacheRet,           \* what the last BindCache::get returned
    cacheRequested,     \* keys passed to BindCache::get so far
    cacheFirstDesc,     \* key -> descriptor of the first get with that key
    \* GrowingBufferArena
    descSize,           \* GrowingBufferArena.desc.size
    buffers,            \* GrowingBufferArena.buffers : Seq of (buffer, cursor)
    buffersCreated,     \* number of device.create_buffer calls so far
    arenaOp,            \* the last arena call
    arenaRet,           \* what the last arena call returned
    arenaPrev,          \* the arena call before the last one, and its result
    arenaLive,          \* allocations returned since the last free()
    panicked,           \* an assert! failed: the program has terminated
    \* BatchRenderer
    instances,          \* BatchRenderer.instances : Seq of InstanceBuffer
    storageBinds,       \* BatchRenderer.storage_binds : BindCache
    textureBinds,       \* BatchRenderer.texture_binds : BindCache
    poolBuffersCreated, \* device.create_buffer calls made by the renderer
    storageGroupsCreated, \* create_bind_group calls made through storage_binds
    textureGroupsCreated, \* create_bind_group calls made through texture_binds
    pass,               \* the last draw: buffer written, groups bound, instances
    batchOp,            \* the last BatchRenderer call
    batchRet,           \* the buffer that call selected or created
    handedOut,          \* buffer -> number of draw() calls it was given to since
                        \* the last free()
    \* observers of the BatchRenderer's frames (a frame ends at free())
    prevFrame,          \* the draws between the last two free() calls
    curFrame,           \* the draws since the last free()
    \* DrawArray
    da,                 \* the DrawArray: buf, len, capacity, id (None before new)
    nextDrawArrayId,    \* static NEXT_DRAW_ARRAY_ID
    arrayBuffersCreated, \* create_buffer_init calls made by DrawArray
    daOp,               \* the last DrawArray call
    daRet,              \* its effect: reallocation, queue write, value returned
    daRecords,          \* record count given to the most recent new/update
    daMaxPayload,       \* largest payload, in bytes, given to new/update so far
    \* resource ids
    nextTextureId,      \* static NEXT_TEXTURE_ID
    nextSamplerId,      \* static NEXT_SAMPLER_ID
    idPc,               \* thread -> where it is in a constructor
    issued,             \* kind -> ids in the order fetch_add returned them
    made,               \* kind -> ids of the finished objects, in order of completion
    \* Frame, FrameArena, ArenaRenderPass
    frame,              \* "none", "recording" (a pass is open) or "dropped"
    arena,              \* Frame.arena : the Arcs each typed arena holds
    passObjs,           \* objects set on the wgpu::RenderPass of the frame
    lastCmds,           \* commands the last call recorded on the pass
    frameOps,           \* number of calls that recorded into the frame
    samplerBinds,       \* BatchRenderer.sampler_binds
    samplerGroupsCreated, \* create_bind_group calls of sampler_binds
    recordedBuffers,    \* pool buffers that recorded draws of the frame read
    freedAfterDraw,     \* free() was called after a draw of the frame
    \* Context
    ctxOp,              \* the last Context::new call and what the platform offered
    ctxRet,             \* what it returned
    ctxCalls,           \* number of Context::new calls so far
    adapterRequests,    \* number of instance.request_adapter calls so far
    deviceRequests,     \* number of adapter.request_device calls so far
    contexts,           \* number of Context values produced so far
    \* MeshRenderer and Context::pad_uniform_size
    minAlign,           \* device.limits().min_uniform_buffer_offset_alignment
    uniformBinds,       \* MeshRenderer.uniform_binds
    uniformGroupsCreated, \* create_bind_group calls of uniform_binds
    meshTextureBinds,   \* MeshRenderer.texture_binds
    meshTextureGroupsCreated, \* create_bind_group calls of texture_binds
    meshOp,             \* the last MeshRenderer call
    meshRet,            \* what the last MeshRenderer::draw allocated, wrote and bound
    padOp,              \* the last pad_uniform_size call
    padRet,             \* what it returned
    \* Mesh
    meshData,           \* the Mesh value, None before Mesh::new
    meshBuffersCreated, \* number of device.create_buffer calls of Mesh so far
    mdOp,               \* the last Mesh call
    mdRet,              \* the queue.write_buffer calls it made
    mdMaxVertices,      \* largest vertex count passed to new/set_vertices
    mdMaxIndices        \* largest index count passed to new/set_indices

cacheVars == <<cache, bindGroupsCreated, cacheOp, cacheRet, cacheRequested,
               cacheFirstDesc>>
arenaVars == <<descSize, buffers, buffersCreated, arenaOp, arenaRet,
               arenaPrev, arenaLive, panicked>>
batchVars == <<instances, storageBinds, textureBinds, poolBuffersCreated,
               storageGroupsCreated, textureGroupsCreated, pass, batchOp,
               batchRet, handedOut>>
histVars == <<prevFrame, curFrame>>
arrayVars == <<da, nextDrawArrayId, arrayBuffersCreated, daOp, daRet, daRecords,
               daMaxPayload>>
idVars == <<nextTextureId, nextSamplerId, idPc, issued, made>>
renderVars == <<frame, arena, passObjs, lastCmds, frameOps, samplerBinds,
                samplerGroupsCreated, recordedBuffers, freedAfterDraw>>
ctxVars == <<ctxOp, ctxRet, ctxCalls, adapterRequests, deviceRequests, contexts>>
meshVars == <<minAlign, uniformBinds, uniformGroupsCreated, meshTextureBinds,
              meshTextureGroupsCreated, meshOp, meshRet, padOp, padRet>>
mdVars == <<meshData, meshBuffersCreated, mdOp, mdRet, mdMaxVertices,
            mdMaxIndices>>
vars == <<cacheVars, arenaVars, batchVars, histVars, arrayVars, idVars,
          renderVars, ctxVars, meshVars, mdVars>>

\* what an action of one component leaves alone
arenaRest == <<descSize, buffers, buffersCreated, arenaOp, arenaRet, arenaPrev,
               arenaLive>>
arrayRest == <<da, arrayBuffersCreated, daOp, daRet, daRecords, daMaxPayload>>
nonCacheVars == <<arenaVars, batchVars, histVars, arrayVars, idVars, renderVars,
    ctxVars, mdVars,
    meshVars>>
nonArenaVars == <<cacheVars, batchVars, histVars, arrayVars, idVars, renderVars,
    ctxVars, mdVars>>
nonBatchVars == <<cacheVars, arenaVars, arrayVars, idVars, ctxVars, mdVars,
    meshVars>>
nonCtxVars == <<cacheVars, arenaVars, batchVars, histVars, arrayVars, idVars,
                renderVars, mdVars,
    meshVars>>
nonArrayVars == <<cacheVars, arenaRest, batchVars, histVars, idVars, renderVars,
    ctxVars, mdVars,
    meshVars>>
nonMdVars == <<cacheVars, arenaVars, batchVars, histVars, arrayVars, idVars,
               renderVars, ctxVars, meshVars>>
nonIdVars == <<cacheVars, arenaVars, batchVars, histVars, arrayRest, renderVars,
    ctxVars, mdVars,
    meshVars>>

\* ------------------------------------------------------------------------
\* BindCache  (src/src/bind_cache.rs)
\* ------------------------------------------------------------------------

\* BindCache::new: an empty HashMap
BindCacheNew == <<>>

\* device.create_bind_group(desc): the n-th bind group the device created
CreateBindGroup(n, desc) == [id |-> n, desc |-> desc]

\* a get that inserts unconditionally (HashMap::insert instead of entry)
BindCacheGetOverwrite(c, n, key, desc) ==
    LET g == CreateBindGroup(n, desc)
    IN  [cache |-> [k \in (DOMAIN c) \cup {key} |-> IF k = key THEN g ELSE c[k]],
         group |-> g, created |-> 1]

\* a get that creates on a miss but forgets to store the new group
BindCacheGetNoStore(c, n, key, desc) ==
    IF key \in DOMAIN c
    THEN [cache |-> c, group |-> c[key], created |-> 0]
    ELSE [cache |-> c, group |-> CreateBindGroup(n, desc), created |-> 1]

\* a get that rebuilds the group when the descriptor differs from the one
\* the cached group was made from
BindCacheGetRefresh(c, n, key, desc) ==
    IF key \in DOMAIN c /\ c[key].desc = desc
    THEN [cache |-> c, group |-> c[key], created |-> 0]
    ELSE LET g == CreateBindGroup(n, desc)
         IN  [cache |-> [k \in (DOMAIN c) \cup {key} |->
                            IF k = key THEN g ELSE c[k]],
              group |-> g, created |-> 1]

\* BindCache::get: cache.entry(key).or_insert_with(create).clone()
BindCacheGet(c, n, key, desc) ==
    IF key \in DOMAIN c
    THEN [cache |-> c, group |-> c[key], created |-> 0]
    ELSE LET g == CreateBindGroup(n, desc)
         IN  [cache |-> [k \in (DOMAIN c) \cup {key} |->
                            IF k = key THEN g ELSE c[k]],
              group |-> g, created |-> 1]

CacheInit ==
    /\ cache = BindCacheNew
    /\ bindGroupsCreated = 0
    /\ cacheOp = None
    /\ cacheRet = None
    /\ cacheRequested = {}
    /\ cacheFirstDesc = <<>>

\* one call of BindCache::get(cx, key, or_insert)
CacheGet(key, desc) ==
    LET r == BindCacheGet(cache, bindGroupsCreated, key, desc)
    IN  /\ cache' = r.cache
        /\ bindGroupsCreated' = bindGroupsCreated + r.created
        /\ cacheRet' = r.group
        /\ cacheOp' = [op |-> "get", key |-> key, desc |-> desc]
        /\ cacheRequested' = cacheRequested \cup {key}
        /\ cacheFirstDesc' =
              IF key \in cacheRequested THEN cacheFirstDesc
              ELSE [k \in cacheRequested \cup {key} |->
                       IF k = key THEN desc ELSE cacheFirstDesc[k]]
        /\ UNCHANGED nonCacheVars

\* ------------------------------------------------------------------------
\* GrowingBufferArena  (src/src/growing.rs)
\* ------------------------------------------------------------------------

\* a slot whose cursor stays at the start of the buffer
SlotAtZero(buffer, cursor) == [buffer |-> buffer, cursor |-> 0]

\* one element of GrowingBufferArena.buffers
Slot(buffer, cursor) == [buffer |-> buffer, cursor |-> cursor]

\* GrowingBufferArena::new: one buffer, cursor 0
ArenaNew(n) == << Slot(n, 0) >>

\* GrowingBufferArena::grow: push a new buffer, cursor 0
Grow(bufs, n) == Append(bufs, Slot(n, 0))

\* a free that resets copies of the cursors
ArenaFreeNoop(bufs) == bufs

\* a free that also gives back every buffer but the first
ArenaFreeShrink(bufs) == << Slot(bufs[1].buffer, 0) >>

\* GrowingBufferArena::free: every cursor back to 0
ArenaFree(bufs) == [i \in DOMAIN bufs |-> Slot(bufs[i].buffer, 0)]

\* a fit test that ignores the cursor
FitsIgnoringCursor(cap, size, cursor) == size <= cap

\* a fit test that is off by one
FitsOffByOne(cap, size, cursor) == size <= cap - cursor + 1

\* a fit test with a strict comparison ("size must be less than desc.size")
FitsStrict(cap, size, cursor) == size < cap - cursor

\* the loop's test: size <= self.desc.size - *cursor
Fits(cap, size, cursor) == size <= cap - cursor

\* the for loop of allocate: the first slot (1-based) passing the test, 0 if none
RECURSIVE ScanFrom(_, _, _, _)
ScanFrom(bufs, cap, size, i) ==
    IF i > Len(bufs) THEN 0
    ELSE IF Fits(cap, size, bufs[i].cursor) THEN i
    ELSE ScanFrom(bufs, cap, size, i + 1)

\* the last slot that fits instead of the first
LastFit(bufs, cap, size) ==
    LET S == {i \in DOMAIN bufs : Fits(cap, size, bufs[i].cursor)}
    IN  IF S = {} THEN 0 ELSE CHOOSE i \in S : \A j \in S : j <= i

\* the slot the for loop of allocate returns from
FirstFit(bufs, cap, size) == ScanFrom(bufs, cap, size, 1)

\* the body of allocate after the assert; depth counts the grow calls made
RECURSIVE AllocateRec(_, _, _, _, _)
AllocateRec(bufs, cap, size, n, depth) ==
    LET i == FirstFit(bufs, cap, size)
    IN  IF i # 0
        THEN [op |-> "alloc",
              buffers |-> [bufs EXCEPT ![i] = Slot(bufs[i].buffer, bufs[i].cursor + size)],
              buffer |-> bufs[i].buffer,
              offset |-> bufs[i].cursor,
              index |-> i - 1,
              grown |-> depth]
        ELSE IF depth >= RecursionLimit
        THEN [op |-> "diverged", buffers |-> bufs, grown |-> depth]
        ELSE AllocateRec(Grow(bufs, n), cap, size, n + 1, depth + 1)

\* an allocate without the assert
AllocateNoAssert(bufs, cap, size, n) == AllocateRec(bufs, cap, size, n, 0)

\* GrowingBufferArena::allocate
Allocate(bufs, cap, size, n) ==
    IF ~(size <= cap)
    THEN [op |-> "panic", buffers |-> bufs, grown |-> 0]
    ELSE AllocateRec(bufs, cap, size, n, 0)

\* struct ArenaAllocation, with the size that was asked for
ArenaAllocation(r, size) ==
    [buffer |-> r.buffer, offset |-> r.offset, index |-> r.index, size |-> size]

ArenaInit ==
    /\ descSize \in Capacities
    /\ buffers = ArenaNew(0)
    /\ buffersCreated = 1
    /\ arenaOp = None
    /\ arenaRet = None
    /\ arenaPrev = [op |-> None, ret |-> None]
    /\ arenaLive = {}
    /\ panicked = FALSE

\* one call of GrowingBufferArena::allocate(cx, size)
ArenaAllocate(size) ==
    /\ ~panicked
    /\ \/ Len(buffers) < MaxSlots            \* bound: no growth past MaxSlots
       \/ FirstFit(buffers, descSize, size) # 0
       \/ size > descSize
    /\ LET r == Allocate(buffers, descSize, size, buffersCreated)
       IN  /\ buffers' = r.buffers
           /\ buffersCreated' = buffersCreated + r.grown
           /\ arenaRet' = [f \in (DOMAIN r) \ {"buffers"} |-> r[f]]
           /\ panicked' = (r.op = "panic")
    /\ arenaPrev' = [op |-> arenaOp, ret |-> arenaRet]
    /\ arenaOp' = [op |-> "allocate", size |-> size]
    /\ UNCHANGED <<descSize, nonArenaVars>>

\* one call of GrowingBufferArena::free()
ArenaFreeCall ==
    /\ ~panicked
    /\ buffers' = ArenaFree(buffers)
    /\ arenaPrev' = [op |-> arenaOp, ret |-> arenaRet]
    /\ arenaRet' = None
    /\ arenaOp' = [op |-> "free"]
    /\ UNCHANGED <<descSize, buffersCreated, panicked, nonArenaVars>>

\* the allocations handed out since the last free(), after an allocate
LiveAllocate ==
    arenaLive' = IF arenaRet'.op = "alloc"
                 THEN arenaLive \cup {ArenaAllocation(arenaRet', arenaOp'.size)}
                 ELSE arenaLive

\* free() invalidates every allocation handed out
LiveFree == arenaLive' = {}

\* ------------------------------------------------------------------------
\* BatchRenderer  (src/src/batch_render.rs)
\* ------------------------------------------------------------------------

\* GpuDraw::std430_size_static(): two vec4 and one mat4 of f32
GpuDrawSize == 96

\* struct InstanceBuffer
InstanceBuffer(buffer, size, free) == [buffer |-> buffer, size |-> size, free |-> free]

\* a filter that forgets the free flag
EligibleIgnoringFree(insts, size) ==
    SelectSeq([i \in 1..Len(insts) |-> i], LAMBDA i : insts[i].size >= size)

\* .enumerate().filter(|(_, x)| x.free && x.size >= size), in pool order
Eligible(insts, size) ==
    SelectSeq([i \in 1..Len(insts) |-> i],
              LAMBDA i : insts[i].free /\ insts[i].size >= size)

\* the first candidate instead of the smallest (find instead of min_by)
FirstCandidate(insts, cand, best) == IF cand = <<>> THEN best ELSE Head(cand)

\* .min_by(|x, y| x.size.cmp(&y.size)): a fold that replaces the element kept
\* so far only by a strictly smaller one; best = 0 is "nothing yet" (None)
RECURSIVE MinBySize(_, _, _)
MinBySize(insts, cand, best) ==
    IF cand = <<>> THEN best
    ELSE LET y == Head(cand)
             keep == IF best = 0 THEN y
                     ELSE IF insts[best].size > insts[y].size THEN y
                     ELSE best
         IN  MinBySize(insts, Tail(cand), keep)

\* a selection that does not clear the free flag of the buffer it reuses
SelectBufferKeepFree(insts, size, n) ==
    LET i == MinBySize(insts, Eligible(insts, size), 0)
    IN  IF i # 0
        THEN [instances |-> insts,
              index |-> i - 1, buffer |-> insts[i].buffer, created |-> 0]
        ELSE [instances |-> Append(insts, InstanceBuffer(n, size, FALSE)),
              index |-> Len(insts), buffer |-> n, created |-> 1]

\* a selection that rounds a new buffer up by one record
SelectBufferOversize(insts, size, n) ==
    LET i == MinBySize(insts, Eligible(insts, size), 0)
    IN  IF i # 0
        THEN [instances |-> [insts EXCEPT ![i] =
                                InstanceBuffer(insts[i].buffer, insts[i].size, FALSE)],
              index |-> i - 1, buffer |-> insts[i].buffer, created |-> 0]
        ELSE [instances |-> Append(insts, InstanceBuffer(n, size + GpuDrawSize, FALSE)),
              index |-> Len(insts), buffer |-> n, created |-> 1]

\* let (index, buf) = ... of draw: reuse the best-fitting free buffer or push
\* a new one of exactly the requested size
SelectBuffer(insts, size, n) ==
    LET i == MinBySize(insts, Eligible(insts, size), 0)
    IN  IF i # 0
        THEN [instances |-> [insts EXCEPT ![i] =
                                InstanceBuffer(insts[i].buffer, insts[i].size, FALSE)],
              index |-> i - 1, buffer |-> insts[i].buffer, created |-> 0]
        ELSE [instances |-> Append(insts, InstanceBuffer(n, size, FALSE)),
              index |-> Len(insts), buffer |-> n, created |-> 1]

\* a free that empties the pool (instances.clear())
FreeAllClear(insts) == <<>>

\* a free that releases the first buffer only
FreeAllFirstOnly(insts) ==
    [i \in DOMAIN insts |->
        InstanceBuffer(insts[i].buffer, insts[i].size, insts[i].free \/ i = 1)]

\* BatchRenderer::free on the pool
FreeAll(insts) ==
    [i \in DOMAIN insts |-> InstanceBuffer(insts[i].buffer, insts[i].size, TRUE)]

BatchInit ==
    /\ instances = <<>>
    /\ storageBinds = BindCacheNew
    /\ textureBinds = BindCacheNew
    /\ poolBuffersCreated = 0
    /\ storageGroupsCreated = 0
    /\ textureGroupsCreated = 0
    /\ pass = None
    /\ batchOp = None
    /\ batchRet = None
    /\ handedOut = <<>>

\* one call of BatchRenderer::draw(cx, pass, mesh, texture, draws) with
\* draws.len() = n and texture.id() = tex
BatchDraw(n, tex) ==
    LET size == GpuDrawSize * n
        sel == SelectBuffer(instances, size, poolBuffersCreated)
        sg == BindCacheGet(storageBinds, storageGroupsCreated, sel.index,
                           [buffer |-> sel.buffer])
        tg == BindCacheGet(textureBinds, textureGroupsCreated, tex,
                           [view |-> tex])
    IN  /\ \/ Len(instances) < MaxPool          \* bound: no growth past MaxPool
           \/ Eligible(instances, size) # <<>>
        /\ instances' = sel.instances
        /\ poolBuffersCreated' = poolBuffersCreated + sel.created
        /\ storageBinds' = sg.cache
        /\ textureBinds' = tg.cache
        /\ storageGroupsCreated' = storageGroupsCreated + sg.created
        /\ textureGroupsCreated' = textureGroupsCreated + tg.created
        /\ pass' = [op |-> "draw_indexed", written |-> sel.buffer,
                    storage |-> sg.group, texture |-> tg.group,
                    instances |-> n]
        /\ batchOp' = [op |-> "draw", n |-> n, size |-> size, tex |-> tex]
        /\ batchRet' = [index |-> sel.index, buffer |-> sel.buffer,
                        created |-> sel.created]
        /\ handedOut' = [b \in (DOMAIN handedOut) \cup {sel.buffer} |->
                            IF b = sel.buffer
                            THEN (IF b \in DOMAIN handedOut THEN handedOut[b] ELSE 0) + 1
                            ELSE handedOut[b]]
        /\ UNCHANGED nonBatchVars

\* one call of BatchRenderer::free()
BatchFree ==
    /\ instances' = FreeAll(instances)
    /\ batchOp' = [op |-> "free"]
    /\ batchRet' = None
    /\ handedOut' = [b \in DOMAIN handedOut |-> 0]
    /\ UNCHANGED <<storageBinds, textureBinds, poolBuffersCreated,
                   storageGroupsCreated, textureGroupsCreated, pass,
                   nonBatchVars>>

\* ------------------------------------------------------------------------
\* DrawArray  (src/src/draw.rs)
\* ------------------------------------------------------------------------

\* a load without the store of the incremented value
FetchAddLost(counter) == [ret |-> counter, next |-> counter]

\* AtomicU64::fetch_add(1, SeqCst): the old value, and the counter after it
FetchAdd(counter) == [ret |-> counter, next |-> counter + 1]

\* the k-th buffer DrawArray created; numbered below 0 to keep them apart
\* from the buffers of the instance pool
ArrayBuffer(k) == 0 - (k + 1)

\* struct DrawArray
DrawArrayRec(buf, len, capacity, id) ==
    [buf |-> buf, len |-> len, capacity |-> capacity, id |-> id]

NoWrite == [op |-> "none"]

\* queue.write_buffer(buf, offset, data) with data of size bytes
WriteBuffer(buf, offset, size) ==
    [op |-> "write_buffer", buf |-> buf, offset |-> offset, size |-> size]

\* DrawArray::new with n records; k buffers and c ids were handed out before
DrawArrayNew(n, k, c) ==
    DrawArrayRec(ArrayBuffer(k), n, GpuDrawSize * n, FetchAdd(c).ret)

\* an update that reallocates whenever the record count changes
DrawArrayUpdateEager(arr, n, k, c) ==
    IF n # arr.len
    THEN [arr |-> DrawArrayRec(ArrayBuffer(k), n, GpuDrawSize * n, FetchAdd(c).ret),
          realloc |-> 1, write |-> NoWrite]
    ELSE [arr |-> arr, realloc |-> 0,
          write |-> WriteBuffer(arr.buf, 0, GpuDrawSize * n)]

\* an update that takes the new payload size as capacity also when it
\* writes in place
DrawArrayUpdateShrink(arr, n, k, c) ==
    LET size == GpuDrawSize * n
    IN  IF size > arr.capacity
        THEN [arr |-> DrawArrayRec(ArrayBuffer(k), n, size, FetchAdd(c).ret),
              realloc |-> 1, write |-> NoWrite]
        ELSE [arr |-> DrawArrayRec(arr.buf, n, size, arr.id),
              realloc |-> 0, write |-> WriteBuffer(arr.buf, 0, size)]

\* DrawArray::update with n records
DrawArrayUpdate(arr, n, k, c) ==
    LET size == GpuDrawSize * n
    IN  IF size > arr.capacity
        THEN [arr |-> DrawArrayRec(ArrayBuffer(k), n, size, FetchAdd(c).ret),
              realloc |-> 1, write |-> NoWrite]
        ELSE [arr |-> DrawArrayRec(arr.buf, n, arr.capacity, arr.id),
              realloc |-> 0, write |-> WriteBuffer(arr.buf, 0, size)]

\* a set that takes the index for a byte offset
DrawArraySetAtByte(arr, at) ==
    IF ~(at < arr.len)
    THEN [op |-> "panic", write |-> NoWrite]
    ELSE [op |-> "set", write |-> WriteBuffer(arr.buf, at, GpuDrawSize)]

\* a set that checks the index against the capacity instead of the length
DrawArraySetByCapacity(arr, at) ==
    IF ~(at * GpuDrawSize < arr.capacity)
    THEN [op |-> "panic", write |-> NoWrite]
    ELSE [op |-> "set", write |-> WriteBuffer(arr.buf, at * GpuDrawSize, GpuDrawSize)]

\* DrawArray::set(cx, at, draw)
DrawArraySet(arr, at) ==
    IF ~(at < arr.len)
    THEN [op |-> "panic", write |-> NoWrite]
    ELSE [op |-> "set", write |-> WriteBuffer(arr.buf, at * GpuDrawSize, GpuDrawSize)]

\* a len() computed from the size of the buffer
DrawArrayLenByCapacity(arr) == arr.capacity \div GpuDrawSize

\* DrawArray::len
DrawArrayLen(arr) == arr.len

\* DrawArray::capacity
DrawArrayCapacity(arr) == arr.capacity

\* DrawArray::id
DrawArrayId(arr) == arr.id

ArrayInit ==
    /\ da = None
    /\ nextDrawArrayId = 0
    /\ arrayBuffersCreated = 0
    /\ daOp = None
    /\ daRet = None
    /\ daRecords = 0
    /\ daMaxPayload = 0

\* one call of DrawArray::new(cx, draws) with n records; the array it
\* replaces is dropped
ArrayNew(n) ==
    /\ ~panicked
    /\ nextDrawArrayId < MaxArrayIds
    /\ da' = DrawArrayNew(n, arrayBuffersCreated, nextDrawArrayId)
    /\ nextDrawArrayId' = FetchAdd(nextDrawArrayId).next
    /\ arrayBuffersCreated' = arrayBuffersCreated + 1
    /\ daOp' = [op |-> "new", n |-> n]
    /\ daRet' = [realloc |-> 1, write |-> NoWrite, oldLen |-> 0]
    /\ daRecords' = n
    /\ daMaxPayload' = GpuDrawSize * n
    /\ UNCHANGED <<panicked, nonArrayVars>>

\* one call of DrawArray::update(cx, draws) with n records
ArrayUpdate(n) ==
    /\ ~panicked
    /\ da # None
    /\ LET r == DrawArrayUpdate(da, n, arrayBuffersCreated, nextDrawArrayId)
       IN  /\ r.realloc = 1 => nextDrawArrayId < MaxArrayIds
           /\ da' = r.arr
           /\ nextDrawArrayId' =
                 IF r.realloc = 1 THEN FetchAdd(nextDrawArrayId).next
                                  ELSE nextDrawArrayId
           /\ arrayBuffersCreated' = arrayBuffersCreated + r.realloc
           /\ daRet' = [realloc |-> r.realloc, write |-> r.write,
                        oldLen |-> da.len]
    /\ daOp' = [op |-> "update", n |-> n]
    /\ daRecords' = n
    /\ daMaxPayload' = IF GpuDrawSize * n > daMaxPayload THEN GpuDrawSize * n
                                                         ELSE daMaxPayload
    /\ UNCHANGED <<panicked, nonArrayVars>>

\* one call of DrawArray::set(cx, at, draw)
ArraySet(at) ==
    /\ ~panicked
    /\ da # None
    /\ LET r == DrawArraySet(da, at)
       IN  /\ panicked' = (r.op = "panic")
           /\ daRet' = [realloc |-> 0, write |-> r.write, oldLen |-> da.len]
    /\ daOp' = [op |-> "set", at |-> at]
    /\ UNCHANGED <<da, nextDrawArrayId, arrayBuffersCreated, daRecords,
                   daMaxPayload, nonArrayVars>>

\* one call each of DrawArray::len(), capacity() and id()
ArrayQuery ==
    /\ ~panicked
    /\ da # None
    /\ daOp' = [op |-> "query"]
    /\ daRet' = [realloc |-> 0, write |-> NoWrite, oldLen |-> da.len,
                 len |-> DrawArrayLen(da), capacity |-> DrawArrayCapacity(da),
                 id |-> DrawArrayId(da)]
    /\ UNCHANGED <<da, nextDrawArrayId, arrayBuffersCreated, daRecords,
                   daMaxPayload, panicked, nonArrayVars>>

\* ------------------------------------------------------------------------
\* Resource ids  (src/src/texture.rs, src/src/sampler.rs, src/src/draw.rs)
\* ------------------------------------------------------------------------

Threads == 0..MaxThread

\* the kinds of resource that carry an id, each with its own static counter
Kinds == {"texture", "sampler", "draw_array"}

\* the static counter of a kind
Counter(kind) ==
    CASE kind = "texture" -> nextTextureId
      [] kind = "sampler" -> nextSamplerId
      [] kind = "draw_array" -> nextDrawArrayId

IdInit ==
    /\ nextTextureId = 0
    /\ nextSamplerId = 0
    /\ idPc = [t \in Threads |-> [op |-> "idle"]]
    /\ issued = [k \in Kinds |-> <<>>]
    /\ made = [k \in Kinds |-> <<>>]

\* thread t enters Texture::new, Sampler::new, or DrawArray::new / a
\* reallocating DrawArray::update
IdStart(t, kind) ==
    /\ idPc[t].op = "idle"
    /\ Len(issued[kind]) + Cardinality({u \in Threads :
            idPc[u].op = "started" /\ idPc[u].kind = kind}) < MaxIds
    /\ idPc' = [idPc EXCEPT ![t] = [op |-> "started", kind |-> kind]]
    /\ UNCHANGED <<nextTextureId, nextSamplerId, nextDrawArrayId, issued, made,
                   nonIdVars>>

\* thread t executes NEXT_..._ID.fetch_add(1, SeqCst), one atomic step
IdFetch(t) ==
    /\ idPc[t].op = "started"
    /\ LET kind == idPc[t].kind
           r == FetchAdd(Counter(kind))
       IN  /\ nextTextureId' = IF kind = "texture" THEN r.next ELSE nextTextureId
           /\ nextSamplerId' = IF kind = "sampler" THEN r.next ELSE nextSamplerId
           /\ nextDrawArrayId' =
                 IF kind = "draw_array" THEN r.next ELSE nextDrawArrayId
           /\ issued' = [issued EXCEPT ![kind] = Append(@, r.ret)]
           /\ idPc' = [idPc EXCEPT ![t] = [op |-> "got", kind |-> kind,
                                           id |-> r.ret]]
    /\ UNCHANGED <<made, nonIdVars>>

\* thread t stores the id in the object and returns it
IdFinish(t) ==
    /\ idPc[t].op = "got"
    /\ made' = [made EXCEPT ![idPc[t].kind] = Append(@, idPc[t].id)]
    /\ idPc' = [idPc EXCEPT ![t] = [op |-> "idle"]]
    /\ UNCHANGED <<nextTextureId, nextSamplerId, nextDrawArrayId, issued,
                   nonIdVars>>

\* ------------------------------------------------------------------------
\* Frame, FrameArena, ArenaRenderPass  (src/src/frame.rs,
\* src/src/render_pass.rs) and the calls of BatchRenderer that record on a
\* pass  (src/src/batch_render.rs)
\* ------------------------------------------------------------------------

\* FrameArena::new(): three empty typed arenas
FrameArenaNew == [render_pipelines |-> {}, bind_groups |-> {}, buffers |-> {}]

\* a reference-counted GPU object: its kind, its owner, its serial there
Obj(kind, from, n) == [kind |-> kind, from |-> from, n |-> n]

NoObj == Obj("none", "none", 0)

\* the open pass: the arena it allocates in, the objects set on the
\* wgpu::RenderPass, and the commands of the current call
OpenPass == [arena |-> arena, objs |-> passObjs, cmds |-> <<>>]

\* wgpu::RenderPass::set_bind_group reached through a &mut wgpu::RenderPass:
\* the pass gets the reference, no arena holds the Arc
RawSetBindGroup(p, o) ==
    [p EXCEPT !.objs = @ \cup {o},
              !.cmds = Append(@, [cmd |-> "set_bind_group", obj |-> o,
                                  instances |-> 0])]

\* ArenaRenderPass::set_pipeline
ArenaSetPipeline(p, o) ==
    [p EXCEPT !.arena.render_pipelines = @ \cup {o},
              !.objs = @ \cup {o},
              !.cmds = Append(@, [cmd |-> "set_pipeline", obj |-> o,
                                  instances |-> 0])]

\* ArenaRenderPass::set_bind_group
ArenaSetBindGroup(p, o) ==
    [p EXCEPT !.arena.bind_groups = @ \cup {o},
              !.objs = @ \cup {o},
              !.cmds = Append(@, [cmd |-> "set_bind_group", obj |-> o,
                                  instances |-> 0])]

\* ArenaRenderPass::set_vertex_buffer
ArenaSetVertexBuffer(p, o) ==
    [p EXCEPT !.arena.buffers = @ \cup {o},
              !.objs = @ \cup {o},
              !.cmds = Append(@, [cmd |-> "set_vertex_buffer", obj |-> o,
                                  instances |-> 0])]

\* ArenaRenderPass::set_index_buffer
ArenaSetIndexBuffer(p, o) ==
    [p EXCEPT !.arena.buffers = @ \cup {o},
              !.objs = @ \cup {o},
              !.cmds = Append(@, [cmd |-> "set_index_buffer", obj |-> o,
                                  instances |-> 0])]

\* wgpu::RenderPass::draw_indexed(.., 0..n) reached through DerefMut
DrawIndexed(p, n) ==
    [p EXCEPT !.cmds = Append(@, [cmd |-> "draw_indexed", obj |-> NoObj,
                                  instances |-> n])]

\* the end of draw and of draw_array: both bind groups, the mesh buffers,
\* then the draw call over n instances
RecordDrawCall(p, storage, texture, n) ==
    DrawIndexed(
        ArenaSetIndexBuffer(
            ArenaSetVertexBuffer(
                ArenaSetBindGroup(
                    ArenaSetBindGroup(p, Obj("bind_group", "storage_binds", storage.id)),
                    Obj("bind_group", "texture_binds", texture.id)),
                Obj("buffer", "mesh.vertices", 0)),
            Obj("buffer", "mesh.indices", 0)),
        n)

\* the state of the frame after a call that left the pass as p
Recorded(p) ==
    /\ arena' = p.arena
    /\ passObjs' = p.objs
    /\ lastCmds' = p.cmds
    /\ frameOps' = frameOps + 1
    /\ frame' = frame

RenderInit ==
    /\ frame = "none"
    /\ arena = FrameArenaNew
    /\ passObjs = {}
    /\ lastCmds = <<>>
    /\ frameOps = 0
    /\ samplerBinds = BindCacheNew
    /\ samplerGroupsCreated = 0
    /\ recordedBuffers = {}
    /\ freedAfterDraw = FALSE

\* Frame::new(cx) followed by SimpleRenderPass::begin(frame); one frame is
\* followed from its creation to its submission
FrameNew ==
    /\ frame = "none"
    /\ frame' = "recording"
    /\ arena' = FrameArenaNew
    /\ passObjs' = {}
    /\ lastCmds' = <<>>
    /\ frameOps' = 0
    /\ recordedBuffers' = {}
    /\ freedAfterDraw' = FALSE
    /\ UNCHANGED <<samplerBinds, samplerGroupsCreated, batchVars, nonBatchVars,
                   histVars>>

\* the pass is dropped, then Frame::submit(self, cx) consumes the frame and
\* with it the arena
FrameSubmit ==
    /\ frame = "recording"
    /\ frame' = "dropped"
    /\ arena' = FrameArenaNew
    /\ passObjs' = {}
    /\ lastCmds' = <<>>
    /\ recordedBuffers' = {}
    /\ freedAfterDraw' = FALSE
    /\ UNCHANGED <<frameOps, samplerBinds, samplerGroupsCreated, batchVars,
                   nonBatchVars, histVars>>

\* BatchRenderPipeline::bind(pass, batch)
PipelineBind ==
    /\ frame = "recording"
    /\ frameOps < MaxFrameOps
    /\ Recorded(ArenaSetPipeline(OpenPass, Obj("render_pipeline", "pipeline", 0)))
    /\ batchOp' = [op |-> "bind"]
    /\ UNCHANGED <<recordedBuffers, freedAfterDraw>>
    /\ UNCHANGED <<instances, storageBinds, textureBinds, poolBuffersCreated,
                   storageGroupsCreated, textureGroupsCreated, pass, batchRet,
                   handedOut, samplerBinds, samplerGroupsCreated,
                   nonBatchVars, histVars>>

\* BatchRenderer::bind_sampler(cx, pass, sampler) with sampler.id() = s
BatchBindSampler(s) ==
    LET g == BindCacheGet(samplerBinds, samplerGroupsCreated, s,
                          [sampler |-> s])
    IN  /\ frame = "recording"
        /\ frameOps < MaxFrameOps
        /\ samplerBinds' = g.cache
        /\ samplerGroupsCreated' = samplerGroupsCreated + g.created
        /\ Recorded(RawSetBindGroup(OpenPass,
                        Obj("bind_group", "sampler_binds", g.group.id)))
        /\ batchOp' = [op |-> "bind_sampler", sampler |-> s]
        /\ UNCHANGED <<recordedBuffers, freedAfterDraw>>
        /\ UNCHANGED <<instances, storageBinds, textureBinds,
                       poolBuffersCreated, storageGroupsCreated,
                       textureGroupsCreated, pass, batchRet, handedOut,
                       nonBatchVars, histVars>>

\* one call of BatchRenderer::draw_array(cx, pass, mesh, texture, array)
\* with texture.id() = tex and the DrawArray da
BatchDrawArray(tex) ==
    LET sg == BindCacheGet(storageBinds, storageGroupsCreated,
                           DrawArrayId(da), [buffer |-> da.buf])
        tg == BindCacheGet(textureBinds, textureGroupsCreated, tex,
                           [view |-> tex])
    IN  /\ da # None
        /\ storageBinds' = sg.cache
        /\ textureBinds' = tg.cache
        /\ storageGroupsCreated' = storageGroupsCreated + sg.created
        /\ textureGroupsCreated' = textureGroupsCreated + tg.created
        /\ pass' = [op |-> "draw_indexed", written |-> None,
                    storage |-> sg.group, texture |-> tg.group,
                    instances |-> DrawArrayLen(da)]
        /\ batchOp' = [op |-> "draw_array", tex |-> tex]
        /\ batchRet' = None
        /\ UNCHANGED <<instances, poolBuffersCreated, handedOut, nonBatchVars>>

\* draw on the open pass of the frame
RenderDraw(n, tex) ==
    /\ frame = "recording"
    /\ frameOps < MaxFrameOps
    /\ Len(instances) < MaxRenderPool \/ Eligible(instances, GpuDrawSize * n) # <<>>
    /\ BatchDraw(n, tex)
    /\ Recorded(RecordDrawCall(OpenPass, pass'.storage, pass'.texture,
                               pass'.instances))
    /\ recordedBuffers' = recordedBuffers \cup {pass'.written}
    /\ UNCHANGED <<samplerBinds, samplerGroupsCreated, freedAfterDraw, histVars>>

\* draw_array on the open pass of the frame
RenderDrawArray(tex) ==
    /\ frame = "recording"
    /\ frameOps < MaxFrameOps
    /\ BatchDrawArray(tex)
    /\ Recorded(RecordDrawCall(OpenPass, pass'.storage, pass'.texture,
                               pass'.instances))
    /\ UNCHANGED <<samplerBinds, samplerGroupsCreated, recordedBuffers,
                   freedAfterDraw, histVars>>

\* BatchRenderer::free() while the frame is being recorded
RenderFree ==
    /\ frame = "recording"
    /\ frameOps < MaxFrameOps
    /\ BatchFree
    /\ frameOps' = frameOps + 1
    /\ lastCmds' = <<>>
    /\ freedAfterDraw' = (freedAfterDraw \/ recordedBuffers # {})
    /\ UNCHANGED <<frame, arena, passObjs, samplerBinds, samplerGroupsCreated,
                   recordedBuffers, histVars>>

\* DrawArray::new before the frame
RenderArrayNew(n) == frame = "none" /\ ArrayNew(n)

\* DrawArray::update before the frame
RenderArrayUpdate(n) == frame = "none" /\ ArrayUpdate(n)

\* ------------------------------------------------------------------------
\* Context  (src/src/context.rs, src/src/error.rs)
\* ------------------------------------------------------------------------

\* wgpu::Backends: a set of backends
Backend == 0..MaxBackend

\* instance.request_adapter(..) where the platform has a suitable adapter
\* on the backends in available and would hand out the one on pick:
\* Some(adapter) or None
RequestAdapter(backends, available, pick) ==
    IF backends \cap available = {}
    THEN [tag |-> "None", backend |-> 0]
    ELSE [tag |-> "Some", backend |-> pick]

\* adapter.request_device(..): Ok((device, queue)) or Err(RequestDeviceError)
RequestDevice(adapter, deviceOk) ==
    IF deviceOk THEN [tag |-> "Ok", backend |-> adapter.backend]
                ELSE [tag |-> "Err", backend |-> adapter.backend]

\* Result<Context>
Ok(backend) == [tag |-> "Ok", error |-> "none", backend |-> backend]

Err(error) == [tag |-> "Err", error |-> error, backend |-> 0]

\* a Context::new that asks for the device a second time when the first
\* request fails
ContextNewRetry(backends, available, pick, deviceOk) ==
    LET adapter == RequestAdapter(backends, available, pick)
    IN  IF adapter.tag = "None"
        THEN [ret |-> Err("NoSuitableAdapter"), adapterRequests |-> 1,
              deviceRequests |-> 0]
        ELSE LET device == RequestDevice(adapter, deviceOk)
             IN  IF device.tag = "Err"
                 THEN [ret |-> Err("FailedDeviceCreation"),
                       adapterRequests |-> 1, deviceRequests |-> 2]
                 ELSE [ret |-> Ok(adapter.backend), adapterRequests |-> 1,
                       deviceRequests |-> 1]

\* Context::new(window, backends): the result, and how many times it asked
\* for an adapter and for a device
ContextNew(backends, available, pick, deviceOk) ==
    LET adapter == RequestAdapter(backends, available, pick)
    IN  IF adapter.tag = "None"
        THEN [ret |-> Err("NoSuitableAdapter"), adapterRequests |-> 1,
              deviceRequests |-> 0]
        ELSE LET device == RequestDevice(adapter, deviceOk)
             IN  IF device.tag = "Err"
                 THEN [ret |-> Err("FailedDeviceCreation"),
                       adapterRequests |-> 1, deviceRequests |-> 1]
                 ELSE [ret |-> Ok(adapter.backend), adapterRequests |-> 1,
                       deviceRequests |-> 1]

CtxInit ==
    /\ ctxOp = None
    /\ ctxRet = None
    /\ ctxCalls = 0
    /\ adapterRequests = 0
    /\ deviceRequests = 0
    /\ contexts = 0

\* one call of Context::new(window, backends) on a platform with suitable
\* adapters on the backends in available and a device request that
\* succeeds iff deviceOk
CtxNew(backends, available, pick, deviceOk) ==
    /\ ctxCalls < MaxCalls
    /\ pick \in backends \cap available \/ (backends \cap available = {} /\ pick = 0)
    /\ LET r == ContextNew(backends, available, pick, deviceOk)
       IN  /\ ctxRet' = r.ret
           /\ adapterRequests' = adapterRequests + r.adapterRequests
           /\ deviceRequests' = deviceRequests + r.deviceRequests
           /\ contexts' = contexts + (IF r.ret.tag = "Ok" THEN 1 ELSE 0)
    /\ ctxOp' = [op |-> "new", backends |-> backends, available |-> available,
                 deviceOk |-> deviceOk]
    /\ ctxCalls' = ctxCalls + 1
    /\ UNCHANGED nonCtxVars

\* ------------------------------------------------------------------------
\* Context::pad_uniform_size  (src/src/context.rs) and MeshRenderer
\* (src/src/mesh_render.rs)
\* ------------------------------------------------------------------------

\* the width of the words the padding is computed in; u64 is modelled by
\* words of WordBits bits
WordBits == 30

Word == 2^WordBits

\* the offset alignments a device reports: powers of two, and 0 for none
Aligns == {0} \cup {2^k : k \in 0..MaxAlignLog}

\* a & b on words
RECURSIVE BitAnd(_, _)
BitAnd(a, b) ==
    IF a = 0 \/ b = 0 THEN 0
    ELSE (a % 2) * (b % 2) + 2 * BitAnd(a \div 2, b \div 2)

\* !a on words
BitNot(a) == Word - 1 - a

\* a padding that masks without rounding up first
PadUniformSizeDown(min, size) ==
    IF min > 0
    THEN [op |-> "ok", value |-> BitAnd(size, BitNot(min - 1))]
    ELSE [op |-> "ok", value |-> size]

\* Context::pad_uniform_size(size) on a device with alignment min:
\* (size + min - 1) & !(min - 1) if min > 0, else size; a sum that does not
\* fit the word is an overflow, value being what wrapping leaves
PadUniformSize(min, size) ==
    IF min > 0
    THEN LET sum == size + min - 1
         IN  [op |-> IF sum >= Word THEN "overflow" ELSE "ok",
              value |-> BitAnd(sum % Word, BitNot(min - 1))]
    ELSE [op |-> "ok", value |-> size]

\* the 1024 of MeshRenderer::new: uniform records per buffer of the arena
UniformsPerBuffer == 1024

\* a key that is the same for every slot
UniformKeyConstant(alloc) == 0

\* the key of uniform_binds for an allocation: alloc.index
UniformKey(alloc) == alloc.index

\* the MeshRenderer and the device limit before any call
MeshInit(a) ==
    /\ minAlign = a
    /\ uniformBinds = BindCacheNew
    /\ uniformGroupsCreated = 0
    /\ meshTextureBinds = BindCacheNew
    /\ meshTextureGroupsCreated = 0
    /\ meshOp = None
    /\ meshRet = None
    /\ padOp = None
    /\ padRet = None

\* MeshRenderer::new: the arena of uniform buffers, each of
\* pad_uniform_size(GpuDrawSize) * 1024 bytes
MeshArenaInit(a) ==
    /\ descSize = PadUniformSize(a, GpuDrawSize).value * UniformsPerBuffer
    /\ buffers = ArenaNew(0)
    /\ buffersCreated = 1
    /\ arenaOp = None
    /\ arenaRet = None
    /\ arenaPrev = [op |-> None, ret |-> None]
    /\ arenaLive = {}
    /\ panicked = FALSE

\* one call of cx.pad_uniform_size(size) by the application, before it
\* draws; an overflowing sum panics in a build with overflow checks and
\* wraps in one without
PadCall(size, checks) ==
    /\ meshOp = None
    /\ LET r == PadUniformSize(minAlign, size)
       IN  padRet' = IF r.op = "overflow" /\ checks
                     THEN [op |-> "panic", value |-> 0]
                     ELSE [op |-> "ok", value |-> r.value]
    /\ padOp' = [op |-> "pad", min |-> minAlign, size |-> size]
    /\ UNCHANGED <<minAlign, uniformBinds, uniformGroupsCreated,
                   meshTextureBinds, meshTextureGroupsCreated, meshOp, meshRet,
                   cacheVars, arenaVars, batchVars, histVars, arrayVars,
                   idVars, renderVars, ctxVars, mdVars>>

\* one call of MeshRenderer::draw(cx, pass, draw) with draw.texture.id() = tex
MeshDraw(tex) ==
    LET size == PadUniformSize(minAlign, GpuDrawSize)
    IN  /\ ArenaAllocate(size.value)
        /\ arenaRet'.op = "alloc"
        /\ LET alloc == arenaRet'
               ug == BindCacheGet(uniformBinds, uniformGroupsCreated,
                                  UniformKey(alloc), [buffer |-> alloc.buffer])
               tg == BindCacheGet(meshTextureBinds, meshTextureGroupsCreated,
                                  tex, [view |-> tex])
           IN  /\ uniformBinds' = ug.cache
               /\ uniformGroupsCreated' = uniformGroupsCreated + ug.created
               /\ meshTextureBinds' = tg.cache
               /\ meshTextureGroupsCreated' = meshTextureGroupsCreated + tg.created
               /\ meshRet' = [alloc |-> alloc,
                              write |-> WriteBuffer(alloc.buffer, alloc.offset,
                                                    GpuDrawSize),
                              uniform |-> ug.group,
                              dynamicOffset |-> alloc.offset,
                              texture |-> tg.group,
                              created |-> ug.created,
                              instances |-> 1]
        /\ meshOp' = [op |-> "draw", tex |-> tex]
        /\ padOp' = [op |-> "pad", min |-> minAlign, size |-> GpuDrawSize]
        /\ padRet' = [op |-> "ok", value |-> size.value]
        /\ UNCHANGED <<minAlign, arenaLive>>

\* one call of MeshRenderer::reset(): the arena's cursors go back to 0
MeshReset ==
    /\ ArenaFreeCall
    /\ meshOp' = [op |-> "reset"]
    /\ meshRet' = None
    /\ UNCHANGED <<minAlign, uniformBinds, uniformGroupsCreated,
                   meshTextureBinds, meshTextureGroupsCreated, padOp, padRet,
                   arenaLive>>

\* ------------------------------------------------------------------------
\* Frames of the BatchRenderer, as its owner sees them: free() is called once
\* per frame (src/src/batch_render.rs, doc of free; examples/draw.rs:118-155)
\* ------------------------------------------------------------------------

\* the empty multiset of draw sizes (in records)
NoSizes == [n \in 0..MaxDraws |-> 0]

\* a frame in which nothing was drawn yet
EmptyFrame == [op |-> "frame", sizes |-> NoSizes, draws |-> 0, created |-> 0, handed |-> {}]

HistInit ==
    /\ prevFrame = [op |-> "none"]
    /\ curFrame = EmptyFrame

\* the frame observer's view of a draw() of n records
HistDraw(n) ==
    /\ curFrame' = [op |-> "frame",
                    sizes |-> [curFrame.sizes EXCEPT ![n] = @ + 1],
                    draws |-> curFrame.draws + 1,
                    created |-> curFrame.created + batchRet'.created,
                    handed |-> curFrame.handed \cup {batchRet'.buffer}]
    /\ UNCHANGED prevFrame

\* the frame observer's view of a free()
HistFree ==
    /\ prevFrame' = curFrame
    /\ curFrame' = EmptyFrame

\* ------------------------------------------------------------------------
\* Mesh  (src/src/mesh.rs)
\* ------------------------------------------------------------------------
VertexSize == 16       \* size_of::<Vertex>(): two [f32; 2]
IndexSize == 4         \* bytes of one u32 index

\* a Mesh value; vertices and indices are the serials of the wgpu buffers
MeshRec(vb, ib, vcap, icap, vcount, icount) ==
    [vertices |-> vb, indices |-> ib,
     vertex_capacity |-> vcap, index_capacity |-> icap,
     vertex_count |-> vcount, index_count |-> icount]

\* the k-th buffer Mesh created, of count elements
MeshBuffer(k, count) == [serial |-> k, count |-> count]

\* Mesh::new with nv vertices and ni indices; k buffers were created before
MeshNew(nv, ni, k) ==
    LET vb == MeshBuffer(k, nv)
        ib == MeshBuffer(k + 1, ni)
    IN  [mesh |-> MeshRec(vb, ib, nv, ni, nv, ni),
         created |-> 2,
         writes |-> <<WriteBuffer(vb, 0, nv * VertexSize),
                      WriteBuffer(ib, 0, ni * IndexSize)>>]

\* a set_vertices that sizes the buffer to every slice it is given
MeshSetVerticesExact(m, n, k) ==
    LET vb == IF n # m.vertex_capacity THEN MeshBuffer(k, n) ELSE m.vertices
    IN  [mesh |-> [m EXCEPT !.vertex_count = n, !.vertices = vb,
                            !.vertex_capacity = n],
         created |-> IF n # m.vertex_capacity THEN 1 ELSE 0,
         writes |-> <<WriteBuffer(vb, 0, n * VertexSize)>>]

\* Mesh::set_vertices with n vertices
MeshSetVertices(m, n, k) ==
    LET grow == n > m.vertex_capacity
        vb == IF grow THEN MeshBuffer(k, n) ELSE m.vertices
    IN  [mesh |-> [m EXCEPT !.vertex_count = n, !.vertices = vb,
                            !.vertex_capacity = IF grow THEN n ELSE @],
         created |-> IF grow THEN 1 ELSE 0,
         writes |-> <<WriteBuffer(vb, 0, n * VertexSize)>>]

\* Mesh::set_indices with n indices
MeshSetIndices(m, n, k) ==
    LET grow == n > m.index_capacity
        ib == IF grow THEN MeshBuffer(k, n) ELSE m.indices
    IN  [mesh |-> [m EXCEPT !.index_count = n, !.indices = ib,
                            !.index_capacity = IF grow THEN n ELSE @],
         created |-> IF grow THEN 1 ELSE 0,
         writes |-> <<WriteBuffer(ib, 0, n * IndexSize)>>]

Max(a, b) == IF a > b THEN a ELSE b

MdInit ==
    /\ meshData = None
    /\ meshBuffersCreated = 0
    /\ mdOp = None
    /\ mdRet = <<>>
    /\ mdMaxVertices = 0
    /\ mdMaxIndices = 0

MdNew(nv, ni) ==
    /\ meshData = None
    /\ LET r == MeshNew(nv, ni, meshBuffersCreated)
       IN  /\ meshData' = r.mesh
           /\ meshBuffersCreated' = meshBuffersCreated + r.created
           /\ mdRet' = r.writes
    /\ mdOp' = [op |-> "new", n |-> nv, m |-> ni]
    /\ mdMaxVertices' = nv
    /\ mdMaxIndices' = ni
    /\ UNCHANGED nonMdVars

MdSetVertices(n) ==
    /\ meshData # None
    /\ LET r == MeshSetVertices(meshData, n, meshBuffersCreated)
       IN  /\ meshData' = r.mesh
           /\ meshBuffersCreated' = meshBuffersCreated + r.created
           /\ mdRet' = r.writes
    /\ mdOp' = [op |-> "set_vertices", n |-> n, m |-> 0]
    /\ mdMaxVertices' = Max(mdMaxVertices, n)
    /\ UNCHANGED mdMaxIndices
    /\ UNCHANGED nonMdVars

MdSetIndices(n) ==
    /\ meshData # None
    /\ LET r == MeshSetIndices(meshData, n, meshBuffersCreated)
       IN  /\ meshData' = r.mesh
           /\ meshBuffersCreated' = meshBuffersCreated + r.created
           /\ mdRet' = r.writes
    /\ mdOp' = [op |-> "set_indices", n |-> n, m |-> 0]
    /\ mdMaxIndices' = Max(mdMaxIndices, n)
    /\ UNCHANGED mdMaxVertices
    /\ UNCHANGED nonMdVars

\* ------------------------------------------------------------------------
\* Specifications
\* ------------------------------------------------------------------------
Init ==
    /\ CacheInit /\ ArenaInit /\ BatchInit /\ HistInit /\ ArrayInit /\ IdInit
    /\ RenderInit /\ CtxInit /\ MeshInit(0) /\ MdInit

\* the components not exercised have one fixed configuration
InitCache == Init /\ descSize = 0
InitBatch == Init /\ descSize = 0

\* a MeshRenderer on a device with any of the alignments
InitMesh ==
    /\ CacheInit /\ BatchInit /\ HistInit /\ ArrayInit /\ IdInit
    /\ RenderInit /\ CtxInit /\ MdInit
    /\ \E a \in Aligns : MeshInit(a) /\ MeshArenaInit(a)

\* the sizes given to pad_uniform_size: near 0 and near the largest word
PadSizes == (0..MaxPadSize) \cup ((Word - 1 - MaxPadSize)..(Word - 1))

NextMesh ==
    \/ \E size \in PadSizes, checks \in BOOLEAN : PadCall(size, checks)
    \/ MeshDraw(0)
    \/ MeshReset

NextCache == \E key \in Keys, desc \in Descs : CacheGet(key, desc)

NextArena ==
    \/ \E size \in 0..(MaxCapacity + 1) :
          ArenaAllocate(size) /\ UNCHANGED <<arenaLive, meshVars>>
    \/ ArenaFreeCall /\ UNCHANGED <<arenaLive, meshVars>>

\* the arena together with the allocations its user holds
NextLive ==
    \/ \E size \in 0..(MaxCapacity + 1) :
          /\ ArenaAllocate(size)
          /\ Len(buffers') <= MaxLiveSlots
          /\ LiveAllocate
          /\ UNCHANGED meshVars
    \/ ArenaFreeCall /\ LiveFree /\ UNCHANGED meshVars

NextBatch ==
    \/ \E n \in 0..MaxDraws, tex \in 0..MaxTexture :
          BatchDraw(n, tex) /\ UNCHANGED <<histVars, renderVars>>
    \/ BatchFree /\ UNCHANGED <<histVars, renderVars>>

\* the batch renderer with one texture, observed frame by frame
NextFrames ==
    \/ \E n \in 0..MaxDraws :
          /\ curFrame.draws < MaxFrameDraws
          /\ BatchDraw(n, 0) /\ HistDraw(n) /\ UNCHANGED renderVars
    \/ BatchFree /\ HistFree /\ UNCHANGED renderVars

NextArray ==
    \/ \E n \in 0..MaxDraws : ArrayNew(n)
    \/ \E n \in 0..MaxDraws : ArrayUpdate(n)
    \/ \E at \in 0..MaxDraws : ArraySet(at)
    \/ ArrayQuery

NextIds ==
    \/ \E t \in Threads, kind \in Kinds : IdStart(t, kind)
    \/ \E t \in Threads : IdFetch(t)
    \/ \E t \in Threads : IdFinish(t)

NextRender ==
    \/ FrameNew
    \/ FrameSubmit
    \/ PipelineBind
    \/ \E s \in 0..MaxSampler : BatchBindSampler(s)
    \/ \E n \in 0..MaxDraws : RenderDraw(n, 0)
    \/ RenderDrawArray(0)
    \/ RenderFree
    \/ \E n \in 0..MaxDraws : RenderArrayNew(n)
    \/ \E n \in 0..MaxDraws : RenderArrayUpdate(n)

NextContext ==
    \E backends \in SUBSET Backend, available \in SUBSET Backend,
       pick \in Backend, deviceOk \in BOOLEAN :
        CtxNew(backends, available, pick, deviceOk)

\* the arena and its live allocations
SpecLive == Init /\ [][NextLive]_vars

\* a MeshRenderer and the padding of its uniform records
SpecMesh == InitMesh /\ [][NextMesh]_vars

NextMeshData ==
    \/ \E nv \in 0..MaxMeshCount : \E ni \in 0..MaxMeshCount : MdNew(nv, ni)
    \/ \E n \in 0..MaxMeshCount : MdSetVertices(n)
    \/ \E n \in 0..MaxMeshCount : MdSetIndices(n)

SpecMeshData == Init /\ [][NextMeshData]_vars

\* the bind-group cache alone
SpecCache == InitCache /\ [][NextCache]_vars

\* the growing buffer arena alone
SpecArena == Init /\ [][NextArena]_vars

\* the batch renderer alone
SpecBatch == InitBatch /\ [][NextBatch]_vars

\* one DrawArray alone
SpecArray == InitBatch /\ [][NextArray]_vars

\* threads constructing textures, samplers and draw arrays
SpecIds == InitBatch /\ [][NextIds]_vars

\* frames recorded with a BatchRenderer and a DrawArray
SpecRender == InitBatch /\ [][NextRender]_vars

\* calls of Context::new
SpecContext == InitBatch /\ [][NextContext]_vars

\* the batch renderer, frame by frame
SpecFrames == InitBatch /\ [][NextFrames]_vars

\* ------------------------------------------------------------------------
\* Properties of BindCache (checked under SpecCache)
\* ------------------------------------------------------------------------

\* C1: BindCache::get with a key that is already present returns the handle
\* stored for that key, makes no create_bind_group call and leaves the cache
\* contents unchanged.
C1_HitReturnsStored ==
    [][ (cacheOp'.op = "get" /\ cacheOp'.key \in DOMAIN cache)
          => /\ cacheRet' = cache[cacheOp'.key]
             /\ bindGroupsCreated' = bindGroupsCreated
             /\ cache' = cache ]_vars

\* a get that hit: the handle returned is not the newest one the device made
C1_Witness ==
    /\ cacheOp.op = "get"
    /\ cacheRet.id + 1 < bindGroupsCreated
    /\ cache[cacheOp.key] = cacheRet

\* C2: the number of create_bind_group calls equals the number of distinct
\* keys requested, and the set of cached keys only grows.
C2_OneCreationPerKey ==
    /\ [](bindGroupsCreated = Cardinality(cacheRequested))
    /\ [](DOMAIN cache = cacheRequested)
    /\ [][DOMAIN cache \subseteq DOMAIN cache']_vars

\* two distinct keys were requested and then the first of them again
C2_Witness ==
    /\ Cardinality(cacheRequested) = 2
    /\ bindGroupsCreated = 2
    /\ cacheOp.op = "get"
    /\ cacheRet.id = 0

\* ------------------------------------------------------------------------
\* Properties of GrowingBufferArena (checked under SpecArena)
\* ------------------------------------------------------------------------

C4_CursorWithinCapacity ==
    \A i \in DOMAIN buffers :
        /\ buffers[i].cursor >= 0
        /\ descSize - buffers[i].cursor >= 0

\* two slots, one of them filled to the brim by several allocations
C4_Witness ==
    /\ Len(buffers) >= 2
    /\ descSize >= 2
    /\ arenaOp.op = "allocate"
    /\ arenaOp.size < descSize
    /\ buffers[arenaRet.index + 1].cursor = descSize

\* C5: free() sets every cursor to zero, and the first allocate(size) after
\* free(), size <= capacity, returns offset 0.
C5_FreeResetsCursors ==
    /\ [](arenaOp.op = "free" => \A i \in DOMAIN buffers : buffers[i].cursor = 0)
    /\ [][ (arenaOp.op = "free" /\ arenaOp'.op = "allocate"
                /\ arenaOp'.size <= descSize)
             => (arenaRet'.op = "alloc" /\ arenaRet'.offset = 0) ]_vars

\* an allocation right after a free() of an arena that had grown and was in use
C5_Witness ==
    /\ arenaPrev.op.op = "free"
    /\ arenaOp.op = "allocate"
    /\ arenaOp.size > 0
    /\ arenaRet.op = "alloc"
    /\ arenaRet.offset = 0
    /\ Len(buffers) >= 2

\* C6: allocate(size) with size > capacity panics, returns no value, and
\* leaves the slots and their cursors as they were.
C6_OversizePanics ==
    [][ (~panicked /\ arenaOp'.op = "allocate" /\ arenaOp'.size > descSize)
          => /\ arenaRet'.op = "panic"
             /\ panicked'
             /\ buffers' = buffers
             /\ buffersCreated' = buffersCreated ]_vars

\* a panic in an arena that has grown and holds allocations
C6_Witness ==
    /\ panicked
    /\ arenaOp.size > descSize
    /\ Len(buffers) >= 2
    /\ \E i \in DOMAIN buffers : buffers[i].cursor > 0

\* C7: allocate is first-fit by creation order: when some slot has
\* capacity - cursor >= size, the lowest-index such slot is returned, at its
\* cursor, and only that slot's cursor advances, by size.
C7_FirstFit ==
    [][ (~panicked /\ arenaOp'.op = "allocate"
            /\ \E i \in DOMAIN buffers : descSize - buffers[i].cursor >= arenaOp'.size)
          => LET S == {i \in DOMAIN buffers :
                          descSize - buffers[i].cursor >= arenaOp'.size}
                 m == CHOOSE i \in S : \A j \in S : i <= j
             IN  /\ arenaRet'.op = "alloc"
                 /\ arenaRet'.index = m - 1
                 /\ arenaRet'.offset = buffers[m].cursor
                 /\ arenaRet'.buffer = buffers[m].buffer
                 /\ Len(buffers') = Len(buffers)
                 /\ \A i \in DOMAIN buffers :
                        /\ buffers'[i].buffer = buffers[i].buffer
                        /\ buffers'[i].cursor =
                              IF i = m THEN buffers[i].cursor + arenaOp'.size
                                       ELSE buffers[i].cursor ]_vars

\* a small request placed in an earlier slot than the larger one before it
C7_Witness ==
    /\ arenaOp.op = "allocate"
    /\ arenaRet.op = "alloc"
    /\ arenaPrev.op.op = "allocate"
    /\ arenaPrev.ret.op = "alloc"
    /\ arenaOp.size > 0
    /\ arenaOp.size < arenaPrev.op.size
    /\ arenaRet.index < arenaPrev.ret.index

\* C8: allocate(size) with size <= capacity terminates and adds at most one
\* slot; a slot is added only when no existing slot has room, and the
\* allocation then lands in the new slot at offset 0.
C8_AtMostOneGrowth ==
    [][ (~panicked /\ arenaOp'.op = "allocate" /\ arenaOp'.size <= descSize)
          => /\ arenaRet'.op = "alloc"
             /\ Len(buffers') = Len(buffers) + arenaRet'.grown
             /\ arenaRet'.grown <= 1
             /\ arenaRet'.grown = 1 =>
                   /\ \A i \in DOMAIN buffers :
                          /\ descSize - buffers[i].cursor < arenaOp'.size
                          /\ buffers'[i] = buffers[i]
                   /\ arenaRet'.index = Len(buffers)
                   /\ arenaRet'.offset = 0
                   /\ buffers'[Len(buffers')].cursor = arenaOp'.size ]_vars

\* a request of exactly the capacity that made the arena grow once
C8_Witness ==
    /\ arenaOp.op = "allocate"
    /\ arenaOp.size = descSize
    /\ arenaRet.op = "alloc"
    /\ arenaRet.grown = 1
    /\ arenaRet.index = Len(buffers) - 1

\* ------------------------------------------------------------------------
\* Properties of BatchRenderer (checked under SpecBatch)
\* ------------------------------------------------------------------------

\* C9: draw selects by best fit: among the pool buffers that are free and
\* have size >= the requested byte size it takes one of minimum size, and
\* among those of equal size the one created earliest.
C9_BestFit ==
    [][ batchOp'.op = "draw"
          => LET E == {i \in DOMAIN instances :
                          instances[i].free /\ instances[i].size >= batchOp'.size}
             IN  E # {} =>
                   LET m == CHOOSE i \in E : \A j \in E :
                               \/ instances[i].size < instances[j].size
                               \/ instances[i].size = instances[j].size /\ i <= j
                   IN  /\ batchRet'.created = 0
                       /\ batchRet'.index = m - 1
                       /\ batchRet'.buffer = instances[m].buffer ]_vars

\* free sizes {too small, sufficient, larger and earlier in the pool}: the
\* draw reused the sufficient one although a larger free one comes first
C9_Witness ==
    /\ batchOp.op = "draw"
    /\ batchRet.created = 0
    /\ LET m == batchRet.index + 1
       IN  /\ \E j \in DOMAIN instances :
                  instances[j].free /\ instances[j].size < batchOp.size
           /\ \E k \in DOMAIN instances :
                  k < m /\ instances[k].free /\ instances[k].size > instances[m].size

\* C10: between two free() calls no buffer is handed to more than one draw:
\* a buffer whose free flag is false is never selected, and the buffer a
\* draw chose or created is marked non-free by that call.
C10_NoDoubleHandOut ==
    /\ [](\A b \in DOMAIN handedOut : handedOut[b] <= 1)
    /\ [](\A b \in DOMAIN handedOut : \A k \in DOMAIN instances :
              (instances[k].buffer = b /\ handedOut[b] > 0) => ~instances[k].free)
    /\ [][ batchOp'.op = "draw"
             => LET i == batchRet'.index + 1
                IN  /\ i \in DOMAIN instances'
                    /\ instances'[i].buffer = batchRet'.buffer
                    /\ ~instances'[i].free
                    /\ i \in DOMAIN instances => instances[i].free ]_vars

\* a second draw since the last free() reused a pool buffer while another
\* one of the pool was already taken
C10_Witness ==
    /\ batchOp.op = "draw"
    /\ batchRet.created = 0
    /\ Cardinality({b \in DOMAIN handedOut : handedOut[b] = 1}) >= 2
    /\ \E k \in DOMAIN instances : instances[k].free

\* C11: when no free pool buffer has size >= the request, draw creates
\* exactly one buffer, of exactly the requested size, appended at the end of
\* the pool and marked non-free, and leaves every existing pool buffer as it
\* was; when a free buffer qualifies, no buffer is created.
C11_CreateExactSize ==
    [][ batchOp'.op = "draw"
          => LET E == {i \in DOMAIN instances :
                          instances[i].free /\ instances[i].size >= batchOp'.size}
                 last == Len(instances')
             IN  IF E = {}
                 THEN /\ batchRet'.created = 1
                      /\ poolBuffersCreated' = poolBuffersCreated + 1
                      /\ Len(instances') = Len(instances) + 1
                      /\ instances'[last].size = batchOp'.size
                      /\ ~instances'[last].free
                      /\ batchRet'.index = last - 1
                      /\ batchRet'.buffer = instances'[last].buffer
                      /\ \A i \in DOMAIN instances :
                             /\ instances'[i] = instances[i]
                             /\ instances[i].buffer # instances'[last].buffer
                 ELSE /\ batchRet'.created = 0
                      /\ poolBuffersCreated' = poolBuffersCreated
                      /\ Len(instances') = Len(instances) ]_vars

\* a buffer was created although the pool holds a free, too small one
C11_Witness ==
    /\ batchOp.op = "draw"
    /\ batchRet.created = 1
    /\ batchOp.size > 0
    /\ Len(instances) >= 2
    /\ instances[Len(instances)].size = batchOp.size
    /\ \E k \in DOMAIN instances :
           instances[k].free /\ instances[k].size < batchOp.size

\* C13: free() sets the free flag of every pool buffer and changes nothing
\* else; no operation removes, reorders or resizes a pool buffer.
C13_FreeOnlySetsFlags ==
    /\ [][ batchOp'.op = "free"
             => /\ Len(instances') = Len(instances)
                /\ \A i \in DOMAIN instances : instances'[i].free
                /\ UNCHANGED <<storageBinds, textureBinds, poolBuffersCreated,
                               storageGroupsCreated, textureGroupsCreated>> ]_vars
    /\ [][ \A i \in DOMAIN instances :
               /\ i \in DOMAIN instances'
               /\ instances'[i].buffer = instances[i].buffer
               /\ instances'[i].size = instances[i].size ]_vars

\* a free() of a pool of buffers of different sizes, some of them in use
C13_Witness ==
    /\ batchOp.op = "free"
    /\ Len(instances) >= 2
    /\ instances[1].size # instances[2].size
    /\ \A i \in DOMAIN instances : instances[i].free
    /\ storageGroupsCreated >= 2

\* ------------------------------------------------------------------------
\* Properties of the BatchRenderer's frames (checked under SpecFrames)
\* ------------------------------------------------------------------------

\* C12: after free(), draw() calls whose sizes form the same multiset as the
\* draws of the frame before create no buffer, in whatever order they are
\* issued; a single batch repeated after free() gets the same buffer again.
C12_SameFrameNoGrowth ==
    (prevFrame.op # "none" /\ curFrame.sizes = prevFrame.sizes)
        => /\ curFrame.created = 0
           /\ curFrame.draws = 1 => curFrame.handed = prevFrame.handed

\* two draws of different sizes, repeated after free(), the pool holding a
\* third buffer as well
C12_Witness ==
    /\ prevFrame.op # "none"
    /\ curFrame.sizes = prevFrame.sizes
    /\ curFrame.draws = 2
    /\ \E n \in 0..MaxDraws : curFrame.sizes[n] = 1
    /\ Len(instances) >= 3

\* ------------------------------------------------------------------------
\* Properties of DrawArray (checked under SpecArray)
\* ------------------------------------------------------------------------

\* C14: update keeps id() when the payload's byte size is <= the capacity
\* and assigns a different id() when it exceeds it; id() changes exactly
\* when the backing buffer is replaced.  The capacity is the largest payload
\* uploaded so far, so growing back up to that maximum keeps id().
C14_IdChangesIffRealloc ==
    /\ [](da # None => da.capacity = daMaxPayload)
    /\ [][ (~panicked /\ da # None /\ daOp'.op = "update")
             => LET size == GpuDrawSize * daOp'.n
                IN  /\ size <= da.capacity
                         => (da'.id = da.id /\ da'.buf = da.buf
                               /\ da'.capacity = da.capacity)
                    /\ size > da.capacity
                         => (da'.id # da.id /\ da'.buf # da.buf
                               /\ da'.capacity = size)
                    /\ size <= daMaxPayload => da'.id = da.id
                    /\ (da'.id # da.id) <=> (da'.buf # da.buf)
                    /\ (da'.id # da.id) <=> (daRet'.realloc = 1) ]_vars

\* an array that was shrunk in place and then grown back to its capacity
\* by an update that kept the id
C14_Witness ==
    /\ daOp.op = "update"
    /\ daRet.realloc = 0
    /\ daRet.oldLen < daOp.n
    /\ GpuDrawSize * daOp.n = da.capacity
    /\ da.id > 0

\* C15: set(index, record) with index >= len() panics before any buffer
\* write, where len() is the record count of the most recent new/update,
\* not the capacity.
C15_SetOutOfRangePanics ==
    /\ [](da # None => DrawArrayLen(da) = daRecords)
    /\ [][ (~panicked /\ da # None /\ daOp'.op = "set" /\ daOp'.at >= daRecords)
             => /\ panicked'
                /\ daRet'.write = NoWrite
                /\ da' = da ]_vars

\* a panic on an index that was valid before an in-place update shrank the
\* array
C15_Witness ==
    /\ panicked
    /\ daOp.op = "set"
    /\ daOp.at >= da.len
    /\ daOp.at * GpuDrawSize < da.capacity

\* the largest number of records that can be added to those the array holds
\* without update() replacing the buffer
MoreRecords(arr) ==
    LET fits(n) == DrawArrayUpdate(arr, n, 0, 0).realloc = 0
    IN  CHOOSE k \in 0..(MaxDraws + 1) :
            fits(arr.len + k) /\ ~fits(arr.len + k + 1)

\* C16: capacity() returns how many more bytes of draw data the array can
\* store before the buffer has to be recreated.
C16_CapacityIsRemaining ==
    daOp.op = "query" => daRet.capacity = GpuDrawSize * MoreRecords(da)

\* ------------------------------------------------------------------------
\* Properties of the resource ids (checked under SpecIds)
\* ------------------------------------------------------------------------

\* C17: within each kind (texture, sampler, draw array) no two id
\* assignments obtain the same id and ids are handed out in strictly
\* increasing order, also when the constructors run on several threads.
C17_IdsUnique ==
    \A kind \in Kinds :
        /\ \A i, j \in DOMAIN issued[kind] :
               i < j => issued[kind][i] < issued[kind][j]
        /\ \A i, j \in DOMAIN made[kind] :
               i # j => made[kind][i] # made[kind][j]
        /\ \A t, u \in Threads :
               (t # u /\ idPc[t].op = "got" /\ idPc[u].op = "got"
                    /\ idPc[t].kind = kind /\ idPc[u].kind = kind)
                 => idPc[t].id # idPc[u].id
        /\ \A t \in Threads : \A i \in DOMAIN made[kind] :
               (idPc[t].op = "got" /\ idPc[t].kind = kind)
                 => idPc[t].id # made[kind][i]

\* two threads were inside Texture::new at once; the one that got the later
\* id finished first, while a draw array and a sampler were made as well
C17_Witness ==
    /\ made["texture"] = <<1, 0>>
    /\ Len(made["draw_array"]) >= 1
    /\ Len(issued["sampler"]) >= 1

\* ------------------------------------------------------------------------
\* Properties of frames (checked under SpecRender)
\* ------------------------------------------------------------------------

\* the Arcs the arena of the frame holds
Retained == arena.render_pipelines \cup arena.bind_groups \cup arena.buffers

\* C18: while the frame is alive, every pipeline, bind group and buffer
\* that was set on its render pass is held by the FrameArena of the frame.
C18_ArenaRetainsAll == frame = "recording" => passObjs \subseteq Retained

\* the draw_indexed commands among the commands of the last call
DrawCalls == SelectSeq(lastCmds, LAMBDA c : c.cmd = "draw_indexed")

\* C19: draw records exactly one draw_indexed whose instance range is
\* 0..draws.len(); draw_array records exactly one whose instance range is
\* 0..array.len(), the record count of the latest DrawArray::new/update.
C19_OneDrawCallPerBatch ==
    /\ (frame = "recording" /\ lastCmds # <<>> /\ batchOp.op = "draw")
          => (Len(DrawCalls) = 1 /\ DrawCalls[1].instances = batchOp.n)
    /\ (frame = "recording" /\ lastCmds # <<>> /\ batchOp.op = "draw_array")
          => (Len(DrawCalls) = 1 /\ DrawCalls[1].instances = daRecords)

\* draw_array of an array that an in-place update left shorter than its
\* buffer
C19_Witness ==
    /\ frame = "recording" /\ lastCmds # <<>>
    /\ batchOp.op = "draw_array"
    /\ daOp.op = "update" /\ daRet.realloc = 0
    /\ daRecords >= 1 /\ GpuDrawSize * daRecords < da.capacity

\* ------------------------------------------------------------------------
\* Properties of Context::new (checked under SpecContext)
\* ------------------------------------------------------------------------

\* C20: each Context::new asks for an adapter at most once and for a device
\* at most once; without a suitable adapter it returns Err(NoSuitableAdapter)
\* and asks for no device; with a failed device request it returns
\* Err(FailedDeviceCreation); neither case produces a Context.
C20_ErrorsSurfacedNoRetry ==
    [][ ctxCalls' = ctxCalls + 1
          => LET found == ctxOp'.backends \cap ctxOp'.available # {}
             IN  /\ adapterRequests' <= adapterRequests + 1
                 /\ deviceRequests' <= deviceRequests + 1
                 /\ ~found => /\ ctxRet' = Err("NoSuitableAdapter")
                              /\ deviceRequests' = deviceRequests
                              /\ contexts' = contexts
                 /\ (found /\ ~ctxOp'.deviceOk)
                       => /\ ctxRet' = Err("FailedDeviceCreation")
                          /\ contexts' = contexts
                 /\ (found /\ ctxOp'.deviceOk)
                       => /\ ctxRet'.tag = "Ok"
                          /\ contexts' = contexts + 1 ]_vars

\* a call that found no adapter, after a call whose device request failed
C20_Witness ==
    /\ ctxCalls = 2
    /\ ctxRet = Err("NoSuitableAdapter")
    /\ ctxOp.backends # {}
    /\ adapterRequests = 2 /\ deviceRequests = 1 /\ contexts = 0

\* ------------------------------------------------------------------------
\* Properties of the storage bind groups (checked under SpecRender)
\* ------------------------------------------------------------------------

\* C21: the storage bind group bound by draw references the pool buffer
\* just written, and the one bound by draw_array references the current
\* buffer of the DrawArray.
C21_StorageGroupMatchesBuffer ==
    /\ batchOp.op = "draw" => pass.storage.desc.buffer = pass.written
    /\ batchOp.op = "draw_array" => pass.storage.desc.buffer = da.buf

\* ------------------------------------------------------------------------
\* Reuse of instance buffers inside one frame (checked under SpecRender)
\* ------------------------------------------------------------------------

\* a draw() was recorded into the frame by this step
DrawStep == frame = "recording" /\ frameOps' = frameOps + 1 /\ batchOp'.op = "draw"

C23_DescriptorIgnoredOnHit ==
    /\ [](cacheOp.op = "get" => cacheRet.desc = cacheFirstDesc[cacheOp.key])
    /\ [](\A k \in DOMAIN cache : cache[k].desc = cacheFirstDesc[k])
    /\ [][ \A k \in DOMAIN cache : k \in DOMAIN cache' /\ cache'[k] = cache[k] ]_vars

\* a get on a present key with a descriptor other than the first one
C23_Witness ==
    /\ cacheOp.op = "get"
    /\ cacheOp.desc # cacheFirstDesc[cacheOp.key]
    /\ cacheRet.desc # cacheOp.desc

\* ------------------------------------------------------------------------
\* Allocations and slots of GrowingBufferArena (checked under SpecLive and
\* SpecArena)
\* ------------------------------------------------------------------------

\* the byte ranges [offset, offset + size) of a and b share a byte of one slot
Overlap(a, b) ==
    /\ a.index = b.index
    /\ a.offset < b.offset + b.size
    /\ b.offset < a.offset + a.size

\* C24: the allocations returned between two consecutive free() calls are
\* pairwise non-overlapping: a new allocation overlaps none of those
\* returned since the last free().
C24_AllocationsDisjoint ==
    /\ [](\A a, b \in arenaLive : a # b => ~Overlap(a, b))
    /\ [][ (arenaOp'.op = "allocate" /\ arenaRet'.op = "alloc")
             => \A a \in arenaLive : ~Overlap(a, ArenaAllocation(arenaRet', arenaOp'.size)) ]_vars

\* two allocations of at least one byte share a slot
C24_Witness ==
    \E a, b \in arenaLive :
        a # b /\ a.index = b.index /\ a.size >= 1 /\ b.size >= 1 /\ a.index >= 1

\* C25: free() changes only cursors; the arena always has a slot, the slot
\* count never decreases and the buffer at a slot index never changes.
C25_SlotsStable ==
    /\ [](Len(buffers) >= 1)
    /\ [][ /\ Len(buffers') >= Len(buffers)
           /\ \A i \in DOMAIN buffers : buffers'[i].buffer = buffers[i].buffer ]_vars
    /\ [][ arenaOp'.op = "free"
             => /\ Len(buffers') = Len(buffers)
                /\ buffersCreated' = buffersCreated
                /\ \A i \in DOMAIN buffers : buffers'[i].cursor = 0 ]_vars

\* a free() of an arena that had grown and was in use
C25_Witness ==
    /\ arenaOp.op = "free"
    /\ Len(buffers) >= 2
    /\ arenaPrev.op.op = "allocate"
    /\ arenaPrev.ret.op = "alloc"
    /\ arenaPrev.ret.index >= 1

\* ------------------------------------------------------------------------
\* Properties of MeshRenderer and pad_uniform_size (checked under SpecMesh)
\* ------------------------------------------------------------------------

\* C26: the uniform bind group a draw gets from the cache under alloc.index
\* references the buffer of the allocation of that draw, the record is
\* written at (alloc.buffer, alloc.offset) and the dynamic offset is
\* alloc.offset; every cached uniform bind group references the buffer of
\* its slot.
C26_UniformGroupMatchesAllocation ==
    /\ meshOp.op = "draw"
          => /\ meshRet.uniform.desc.buffer = meshRet.alloc.buffer
             /\ meshRet.write.buf = meshRet.alloc.buffer
             /\ meshRet.write.offset = meshRet.alloc.offset
             /\ meshRet.dynamicOffset = meshRet.alloc.offset
             /\ meshRet.alloc.buffer = buffers[meshRet.alloc.index + 1].buffer
    /\ \A k \in DOMAIN uniformBinds :
          uniformBinds[k].desc.buffer = buffers[k + 1].buffer

\* a draw that got the first bytes of the second buffer again after a
\* reset, with the bind group made before the reset
C26_Witness ==
    /\ meshOp.op = "draw"
    /\ meshRet.alloc.index = 1
    /\ meshRet.alloc.offset = 0
    /\ meshRet.created = 0

\* the smallest multiple of min that is >= size
SmallestMultiple(min, size) ==
    IF size % min = 0 THEN size ELSE size + (min - (size % min))

\* what C30 says of the last pad_uniform_size call
PadIsSmallestMultiple ==
    IF padOp.min = 0
    THEN padRet = [op |-> "ok", value |-> padOp.size]
    ELSE padRet = [op |-> "ok", value |-> SmallestMultiple(padOp.min, padOp.size)]

\* every offset a draw got from the arena is a multiple of the alignment
OffsetsAligned ==
    (meshOp.op = "draw" /\ minAlign > 0) => meshRet.alloc.offset % minAlign = 0

C27_LenWithinCapacity ==
    /\ [](da # None => /\ DrawArrayLen(da) * GpuDrawSize <= DrawArrayCapacity(da)
                       /\ DrawArrayCapacity(da) = daMaxPayload)
    /\ [](daOp.op = "new" => DrawArrayCapacity(da) = DrawArrayLen(da) * GpuDrawSize)
    /\ [][ (da # None /\ daOp'.op # "new")
             => DrawArrayCapacity(da') >= DrawArrayCapacity(da) ]_vars

\* a set on an array that an update left shorter than its buffer
C27_Witness ==
    /\ daOp.op = "set" /\ ~panicked
    /\ DrawArrayLen(da) * GpuDrawSize < DrawArrayCapacity(da)

\* C28: set(index, record) with index < len() writes one record at byte
\* offset index * GpuDrawSize, inside the buffer, and leaves len(),
\* capacity(), id() and the buffer unchanged.
C28_SetWritesOneRecord ==
    [][ (~panicked /\ da # None /\ daOp'.op = "set" /\ daOp'.at < daRecords)
          => /\ ~panicked'
             /\ daRet'.write = WriteBuffer(da.buf, daOp'.at * GpuDrawSize, GpuDrawSize)
             /\ daRet'.write.offset + daRet'.write.size <= da.capacity
             /\ da' = da ]_vars

\* a set of the last record of an array of at least two
C28_Witness ==
    /\ daOp.op = "set" /\ ~panicked
    /\ daOp.at >= 1
    /\ daOp.at + 1 = DrawArrayLen(da)
    /\ daRet.write.offset = daOp.at * GpuDrawSize

\* ------------------------------------------------------------------------
\* Counts, capacities and buffers of Mesh (checked under SpecMeshData)
\* ------------------------------------------------------------------------

\* C29: vertex_count <= vertex_capacity and index_count <= index_capacity;
\* each capacity never decreases and equals the largest count ever set or
\* the initial count; a buffer is replaced only when the new count exceeds
\* the capacity; set_vertices leaves the index buffer, index_count and
\* index_capacity alone, and set_indices the vertex ones.
C29_MeshCapacities ==
    /\ [](meshData # None =>
            /\ meshData.vertex_count <= meshData.vertex_capacity
            /\ meshData.index_count <= meshData.index_capacity
            /\ meshData.vertex_capacity = mdMaxVertices
            /\ meshData.index_capacity = mdMaxIndices)
    /\ [][ meshData # None =>
            /\ meshData'.vertex_capacity >= meshData.vertex_capacity
            /\ meshData'.index_capacity >= meshData.index_capacity
            /\ meshData'.vertices # meshData.vertices
                 => /\ mdOp'.op = "set_vertices"
                    /\ mdOp'.n > meshData.vertex_capacity
            /\ meshData'.indices # meshData.indices
                 => /\ mdOp'.op = "set_indices"
                    /\ mdOp'.n > meshData.index_capacity
            /\ mdOp'.op = "set_vertices"
                 => /\ meshData'.indices = meshData.indices
                    /\ meshData'.index_count = meshData.index_count
                    /\ meshData'.index_capacity = meshData.index_capacity
            /\ mdOp'.op = "set_indices"
                 => /\ meshData'.vertices = meshData.vertices
                    /\ meshData'.vertex_count = meshData.vertex_count
                    /\ meshData'.vertex_capacity = meshData.vertex_capacity ]_vars

\* a set_vertices of fewer vertices than the buffer holds, written in place
\* after an earlier set_vertices had replaced the buffer
C29_Witness ==
    /\ meshData # None
    /\ mdOp.op = "set_vertices"
    /\ meshData.vertex_count < meshData.vertex_capacity
    /\ meshData.vertices.serial >= 2
    /\ mdRet[1].buf = meshData.vertices

====
